---- MODULE Spec2Model ----
(***************************************************************************)
(* Model of the interview session policy engine: InterviewEngine and       *)
(* LogicCore (services/engine, listed in src/README.md), the policy table  *)
(* (src/services/policy.ts), the types (src/types.ts), the fallback        *)
(* evaluator of the Gemini service (FallbackRegistry) and the handlers of  *)
(* App that drive the engine (src/README.md).                              *)
(*                                                                         *)
(* Units.  Scores and penalties are integers in hundredths of a point      *)
(* (8.0 is 800); the four criteria are integers in tenths of a point       *)
(* (10 is 100); weights are in hundredths (0.40 is 40); times are whole    *)
(* seconds.                                                                *)
(*                                                                         *)
(* Strings.  A skill name is a record [name, upper, padded]: `name` is the *)
(* lower-cased, trimmed text, `upper` says that the text holds upper-case  *)
(* letters and `padded` that it carries surrounding white space, so that   *)
(* toLowerCase() and trim() are real conversions.  An answer text is a     *)
(* record [len, blank]: its length and whether it holds white space only.  *)
(***************************************************************************)
EXTENDS Integers, Sequences, FiniteSets, TLC

VARIABLES
    scope,                   \* which bounded input family this run explores
    status,                  \* InterviewState.status
    currentDifficulty,       \* InterviewState.currentDifficulty
    evaluationMode,          \* InterviewState.evaluationMode
    activeQuestion,          \* InterviewState.activeQuestion (NoQuestion = null)
    turns,                   \* InterviewState.turns
    scoreHistory,            \* InterviewState.scoreHistory
    consecutiveWeakAnswers,  \* InterviewState.consecutiveWeakAnswers
    timeViolations,          \* InterviewState.timeViolations
    detectedSkillGaps,       \* InterviewState.detectedSkillGaps
    difficultyCeiling,       \* InterviewState.difficultyCeiling (NoCeiling = null)
    terminationReason,       \* InterviewState.terminationReason
    logs,                    \* InterviewState.logs, newest entry first
    pending,                 \* submitAnswer calls suspended in (or about to resume from) evaluateAnswer
    delivered,               \* what the last notify() handed to the subscribers
    lastCall,                \* the engine method invoked last and how it ended
    kernel,                  \* a LogicCore function applied on its own: arguments and result
    twin,                    \* the session a replay is compared with
    kept,                    \* the state object a subscriber kept from a notification
    app                      \* App: parsed data, calls awaited by its handlers, requests counted

sessionVars == <<status, currentDifficulty, evaluationMode, activeQuestion, turns,
                 scoreHistory, consecutiveWeakAnswers, timeViolations,
                 detectedSkillGaps, difficultyCeiling, terminationReason, logs>>

vars == <<scope, status, currentDifficulty, evaluationMode, activeQuestion, turns,
          scoreHistory, consecutiveWeakAnswers, timeViolations, detectedSkillGaps,
          difficultyCeiling, terminationReason, logs, pending, delivered, lastCall,
          kernel, twin, kept, app>>

(***************************************************************************)
(* Policy table (src/services/policy.ts)                                   *)
(***************************************************************************)
WEIGHT_ACCURACY == 40
WEIGHT_DEPTH == 30
WEIGHT_CLARITY == 15
WEIGHT_RELEVANCE == 15
STRONG_SCORE == 800
WEAK_SCORE == 450
CRITICAL_FAIL_SCORE == 200
PENALTY_START_SEC == 60
PENALTY_STEP_SEC == 5
PENALTY_PER_STEP == 50
MAX_VIOLATIONS_ALLOWED == 2
MIN_ANSWER_TIME_MS == 2000
LIMIT_SEC == 60
PRIMARY_MISSING == 150
SECONDARY_MISSING == 50
MAX_QUESTIONS == 5
STRIKE_LIMIT == 3
CRITICAL_FAIL_STRIKES == 2
EMPTY_ANSWER_SCORE == 0
SPAM_ANSWER_SCORE == 0
SPAM_MIN_LENGTH == 5
LOG_CAP == 200
\* FALLBACK_SCORING, in tenths of a point
KEYWORD_MATCH_VALUE == 20
LENGTH_THRESHOLD_CHARS == 50
LENGTH_BONUS == 10
BASE_SCORE == 40
MAX_SCORE == 85
\* CRITICAL_GAP_MATCH_THRESHOLD 0.6 as the fraction THRESHOLD_NUM / THRESHOLD_DEN
THRESHOLD_NUM == 6
THRESHOLD_DEN == 10

Difficulties == {"Easy", "Medium", "Hard"}
NoCeiling == "null"
CAP_LEVEL == "Medium"

InitialDifficulty(complexityLevel) ==
    CASE complexityLevel = "Senior" -> "Medium"
      [] complexityLevel = "Mid" -> "Easy"
      [] complexityLevel = "Junior" -> "Easy"
      [] OTHER -> "Easy"

(***************************************************************************)
(* Exploration bounds                                                      *)
(***************************************************************************)
\* Each run explores one scope: "deep" follows long sessions of strong and weak
\* answers, "timing" shorter ones of strong and failed answers given in time or late,
\* "wide" single turns over empty, spam and evaluated answers on roles with skill
\* gaps, "audit" short sessions with the audit log and the outcome of each call
\* recorded and several evaluations in flight at once, "filter" single turns over
\* answers around the limits of the pre-evaluation filters, "gaps" the analysis of roles
\* with up to five primary skills, "fallback" sessions whose evaluations come from the
\* external service or from the fallback evaluator, with the warnings of the audit log
\* recorded.  The scope "replay" belongs
\* to the replay specification and "kernel" to the one of LogicCore.
MaxTurnsDeep == 5
MaxTurnsTiming == 3
MaxTurnsWide == 1
MaxTurnsAudit == 1
MaxAuditLog == 6
MaxTurnsFilter == 1
MaxTurnsReplay == 3
MaxTurnsGaps == 0
MaxTurnsFallback == 3
MaxTurnsObserver == 1
\* turns explored in a session driven by App, clicks on its Reset button, and turns
\* explored once Reset was clicked
MaxTurnsApp == 6
MaxAppResets == 1
\* entries written to one audit log
MaxLogged == 210
MaxTurnsAfterReset == 1
\* largest score (hundredths) and longest answer time (seconds) LogicCore is applied to
MaxKernelScore == 1000
MaxKernelSeconds == 130
\* most expected keywords found in an answer, and longest answer (characters), the
\* fallback evaluator is applied to
MaxKeywordHits == 5
MaxAnswerLength == 60

Scopes == {"deep", "timing", "wide", "audit", "filter", "gaps", "fallback"}

\* accepted submissions (recorded or still being evaluated) explored per session
MaxTurns ==
    CASE scope = "deep" -> MaxTurnsDeep
      [] scope = "timing" -> MaxTurnsTiming
      [] scope = "wide" -> MaxTurnsWide
      [] scope = "filter" -> MaxTurnsFilter
      [] scope = "replay" -> MaxTurnsReplay
      [] scope = "gaps" -> MaxTurnsGaps
      [] scope = "fallback" -> MaxTurnsFallback
      [] scope = "observer" -> MaxTurnsObserver
      [] scope = "app" -> IF app.resets = 0 THEN MaxTurnsApp ELSE MaxTurnsAfterReset
      [] OTHER -> MaxTurnsAudit

\* submitAnswer calls explored in flight at once
InFlightLimit == IF scope = "audit" THEN MaxTurns ELSE 1

TrackLogs == scope = "audit"

\* of the audit log, only the warnings are recorded
TrackWarnings == scope = "fallback"

(***************************************************************************)
(* Values                                                                  *)
(***************************************************************************)
Statuses == {"IDLE", "ANALYZING", "GENERATING", "INTERVIEWING", "EVALUATING",
             "TERMINATED", "COMPLETED"}

Skill(n, u, p) == [name |-> n, upper |-> u, padded |-> p]
toLowerCase(s) == [s EXCEPT !.upper = FALSE]
\* a trim that leaves the blanks around a name
trimNothing(s) == s

trim(s) == [s EXCEPT !.padded = FALSE]

NoQuestion == [id |-> 0, targetSkill |-> Skill("", FALSE, FALSE)]

NoReason == [kind |-> "null", count |-> 0, limit |-> 0]

Text(n, b) == [len |-> n, blank |-> b]

Criteria(a, d, c, r) == [accuracy |-> a, depth |-> d, clarity |-> c, relevance |-> r]

\* a maximum that always takes its second argument
MaxSecond(a, b) == b

Max(a, b) == IF a >= b THEN a ELSE b

CeilDiv(a, b) == (a + b - 1) \div b

\* Number(x.toFixed(2)) of a value given in thousandths, as hundredths
RoundToHundredths(thousandths) == (thousandths + 5) \div 10

(***************************************************************************)
(* LogicCore: the pure kernel                                              *)
(***************************************************************************)
calculateScore(criteria) ==
    RoundToHundredths(criteria.accuracy * WEIGHT_ACCURACY
                      + criteria.depth * WEIGHT_DEPTH
                      + criteria.clarity * WEIGHT_CLARITY
                      + criteria.relevance * WEIGHT_RELEVANCE)

\* a calculateTimeLogic that counts only the penalty steps completed
calculateTimeLogicFloor(seconds) ==
    IF seconds <= PENALTY_START_SEC
    THEN [penalty |-> 0, isViolation |-> FALSE]
    ELSE [penalty |-> ((seconds - PENALTY_START_SEC) \div PENALTY_STEP_SEC) * PENALTY_PER_STEP,
          isViolation |-> TRUE]

calculateTimeLogic(seconds) ==
    IF seconds <= PENALTY_START_SEC
    THEN [penalty |-> 0, isViolation |-> FALSE]
    ELSE [penalty |-> CeilDiv(seconds - PENALTY_START_SEC, PENALTY_STEP_SEC) * PENALTY_PER_STEP,
          isViolation |-> TRUE]

\* a checkSkillGap that compares the names as they are written
checkSkillGapExact(targetSkill, gaps) ==
    LET hits == {i \in 1..Len(gaps) : gaps[i].skill = targetSkill}
    IN  IF hits = {}
        THEN [penalty |-> 0, type |-> "null"]
        ELSE LET gap == gaps[CHOOSE i \in hits : \A j \in hits : i <= j]
             IN  IF gap.type = "PRIMARY"
                 THEN [penalty |-> PRIMARY_MISSING, type |-> "PRIMARY"]
                 ELSE [penalty |-> SECONDARY_MISSING, type |-> "SECONDARY"]

\* gaps.find(...): the first gap whose lower-cased name equals the lower-cased target
checkSkillGap(targetSkill, gaps) ==
    LET hits == {i \in 1..Len(gaps) : toLowerCase(gaps[i].skill) = toLowerCase(targetSkill)}
    IN  IF hits = {}
        THEN [penalty |-> 0, type |-> "null"]
        ELSE LET gap == gaps[CHOOSE i \in hits : \A j \in hits : i <= j]
             IN  IF gap.type = "PRIMARY"
                 THEN [penalty |-> PRIMARY_MISSING, type |-> "PRIMARY"]
                 ELSE [penalty |-> SECONDARY_MISSING, type |-> "SECONDARY"]

\* levels.indexOf
LevelIndex(d) == CASE d = "Easy" -> 0 [] d = "Medium" -> 1 [] d = "Hard" -> 2

\* a nextDifficulty whose thresholds are strict
nextDifficultyStrict(current, score, ceiling) ==
    LET next ==
            IF score > STRONG_SCORE
            THEN (CASE current = "Easy" -> "Medium"
                    [] current = "Medium" -> "Hard"
                    [] OTHER -> current)
            ELSE IF score < WEAK_SCORE
            THEN (CASE current = "Hard" -> "Medium"
                    [] current = "Medium" -> "Easy"
                    [] OTHER -> current)
            ELSE current
    IN  IF ceiling # NoCeiling /\ LevelIndex(next) > LevelIndex(ceiling)
        THEN ceiling
        ELSE next

\* a nextDifficulty that does not apply the ceiling
nextDifficultyUncapped(current, score, ceiling) ==
    IF score >= STRONG_SCORE
    THEN (CASE current = "Easy" -> "Medium"
            [] current = "Medium" -> "Hard"
            [] OTHER -> current)
    ELSE IF score <= WEAK_SCORE
    THEN (CASE current = "Hard" -> "Medium"
            [] current = "Medium" -> "Easy"
            [] OTHER -> current)
    ELSE current

nextDifficulty(current, score, ceiling) ==
    LET next ==
            IF score >= STRONG_SCORE
            THEN (CASE current = "Easy" -> "Medium"
                    [] current = "Medium" -> "Hard"
                    [] OTHER -> current)
            ELSE IF score <= WEAK_SCORE
            THEN (CASE current = "Hard" -> "Medium"
                    [] current = "Medium" -> "Easy"
                    [] OTHER -> current)
            ELSE current
    IN  IF ceiling # NoCeiling /\ LevelIndex(next) > LevelIndex(ceiling)
        THEN ceiling
        ELSE next

(***************************************************************************)
(* FallbackRegistry                                                        *)
(***************************************************************************)
Lesser(a, b) == IF a <= b THEN a ELSE b

\* an evaluate whose heuristic score has no cap of its own
evaluateUncapped(keywordHits, length) ==
    LET isShort == length < LENGTH_THRESHOLD_CHARS
        heuristicScore ==
            BASE_SCORE + keywordHits * KEYWORD_MATCH_VALUE + (IF ~isShort THEN LENGTH_BONUS ELSE 0)
    IN  [accuracy |-> Lesser(100, heuristicScore),
         clarity |-> 60,
         depth |-> IF isShort THEN 30 ELSE 60,
         relevance |-> IF keywordHits > 0 THEN 80 ELSE 40,
         isFallback |-> TRUE]

\* FallbackRegistry.evaluate(question, answer), for an answer of `length` characters in
\* which `keywordHits` of the question's expected keywords occur
evaluate(keywordHits, length) ==
    LET isShort == length < LENGTH_THRESHOLD_CHARS
        uncapped ==
            BASE_SCORE + keywordHits * KEYWORD_MATCH_VALUE + (IF ~isShort THEN LENGTH_BONUS ELSE 0)
        heuristicScore == Lesser(uncapped, MAX_SCORE)
    IN  [accuracy |-> Lesser(100, heuristicScore),
         clarity |-> 60,
         depth |-> IF isShort THEN 30 ELSE 60,
         relevance |-> IF keywordHits > 0 THEN 80 ELSE 40,
         isFallback |-> TRUE]

\* FallbackRegistry.QUESTIONS.length
POOL_SIZE == 5

\* a fallback selection that takes the first question of the pool not asked yet, or the
\* first one when all were asked
FallbackPicksUnasked(previousQuestions) ==
    LET unasked == (1..POOL_SIZE) \ previousQuestions
    IN  IF unasked = {} THEN {1} ELSE {CHOOSE i \in unasked : \A j \in unasked : i <= j}

\* generateQuestion, fallback selection: pool[Math.floor(Math.random() * pool.length)],
\* whatever was asked before; questions are named by their place in the pool
FallbackPicks(previousQuestions) == 1..POOL_SIZE

(***************************************************************************)
(* InterviewEngine: helpers                                                *)
(***************************************************************************)
\* a log that drops the oldest entry only when two over the cap
logOverCap(l, msg) ==
    LET grown == <<msg>> \o l
    IN  IF Len(grown) > LOG_CAP + 1 THEN SubSeq(grown, 1, Len(grown) - 1) ELSE grown

\* log(msg): prepend, then drop the oldest entry when over the cap
log(l, msg) ==
    LET grown == <<msg>> \o l
    IN  IF Len(grown) > LOG_CAP THEN SubSeq(grown, 1, Len(grown) - 1) ELSE grown

RECURSIVE logAll(_, _)
logAll(l, msgs) ==
    IF msgs = <<>> THEN l ELSE logAll(log(l, Head(msgs)), Tail(msgs))

\* the audit log after the entries `msgs` (oldest first) were logged
IsWarning(msg) == msg = "WARN Fallback Mode"

Logged(msgs) ==
    IF TrackLogs THEN logAll(logs, msgs)
    ELSE IF TrackWarnings THEN logAll(logs, SelectSeq(msgs, IsWarning))
    ELSE logs

\* room left in the explored audit log for `n` more entries
LogRoom(n) == TrackLogs => Len(logs) + n <= MaxAuditLog

Snapshot(st, q) == [status |-> st, activeQuestion |-> q]

Call(op, outcome) == [op |-> op, outcome |-> outcome]

\* the record of the call just made, where call outcomes are recorded
Outcome(op, outcome) == IF TrackLogs THEN Call(op, outcome) ELSE lastCall

\* a synchronous run of submitAnswer (empty or spam answer) is between its two notify() calls
SyncRunning == \E c \in pending : c.local

InitialLogs == <<"SYSTEM Engine Online">>

\* no LogicCore function is applied on its own
NoKernelCall == [fn |-> "none"]

\* what a session ended with
SessionOutcome ==
    [scoreHistory |-> scoreHistory,
     difficulties |-> [i \in 1..Len(turns) |-> turns[i].difficultyAfter],
     currentDifficulty |-> currentDifficulty,
     consecutiveWeakAnswers |-> consecutiveWeakAnswers,
     timeViolations |-> timeViolations,
     status |-> status]

Twin(phase, jd, resume, ts, final) ==
    [phase |-> phase, role |-> jd, profile |-> resume, turns |-> ts, final |-> final]

\* no replay is going on
NoTwin ==
    Twin("none", [complexityLevel |-> "", primarySkills |-> <<>>, secondarySkills |-> <<>>],
         <<>>, <<>>,
         [scoreHistory |-> <<>>, difficulties |-> <<>>, currentDifficulty |-> "Easy",
          consecutiveWeakAnswers |-> 0, timeViolations |-> 0, status |-> "IDLE"])

\* the fields of the state object a subscriber reads
Fields ==
    [status |-> status, turns |-> turns, consecutiveWeakAnswers |-> consecutiveWeakAnswers,
     timeViolations |-> timeViolations, logs |-> logs]

\* no subscriber kept a state object
NoKept == [held |-> FALSE, live |-> FALSE, given |-> Fields, seen |-> Fields]

\* App after its first render: nothing parsed, no call awaited
NoApp ==
    [data |-> FALSE, parses |-> 0, begins |-> 0, fetches |-> 0, error |-> FALSE,
     resets |-> 0, begun |-> 0, started |-> 0, lastBegin |-> "none"]

\* an initial state that keeps the strike counter
getInitialStateKeepsStrikes ==
    /\ status' = "IDLE"
    /\ currentDifficulty' = "Easy"
    /\ evaluationMode' = "LLM"
    /\ activeQuestion' = NoQuestion
    /\ turns' = <<>>
    /\ scoreHistory' = <<>>
    /\ consecutiveWeakAnswers' = consecutiveWeakAnswers
    /\ timeViolations' = 0
    /\ detectedSkillGaps' = <<>>
    /\ difficultyCeiling' = NoCeiling
    /\ terminationReason' = NoReason
    /\ logs' = InitialLogs

\* an initial state that keeps the difficulty ceiling
getInitialStateKeepsCeiling ==
    /\ status' = "IDLE"
    /\ currentDifficulty' = "Easy"
    /\ evaluationMode' = "LLM"
    /\ activeQuestion' = NoQuestion
    /\ turns' = <<>>
    /\ scoreHistory' = <<>>
    /\ consecutiveWeakAnswers' = 0
    /\ timeViolations' = 0
    /\ detectedSkillGaps' = <<>>
    /\ difficultyCeiling' = difficultyCeiling
    /\ terminationReason' = NoReason
    /\ logs' = InitialLogs

getInitialState ==
    /\ status' = "IDLE"
    /\ currentDifficulty' = "Easy"
    /\ evaluationMode' = "LLM"
    /\ activeQuestion' = NoQuestion
    /\ turns' = <<>>
    /\ scoreHistory' = <<>>
    /\ consecutiveWeakAnswers' = 0
    /\ timeViolations' = 0
    /\ detectedSkillGaps' = <<>>
    /\ difficultyCeiling' = NoCeiling
    /\ terminationReason' = NoReason
    /\ logs' = InitialLogs

\* the engine after its constructor
Constructed ==
    /\ status = "IDLE"
    /\ currentDifficulty = "Easy"
    /\ evaluationMode = "LLM"
    /\ activeQuestion = NoQuestion
    /\ turns = <<>>
    /\ scoreHistory = <<>>
    /\ consecutiveWeakAnswers = 0
    /\ timeViolations = 0
    /\ detectedSkillGaps = <<>>
    /\ difficultyCeiling = NoCeiling
    /\ terminationReason = NoReason
    /\ logs = InitialLogs
    /\ pending = {}
    /\ delivered = Snapshot("none", NoQuestion)
    /\ lastCall = Call("constructor", "ok")

Init ==
    /\ scope \in Scopes
    /\ Constructed
    /\ kernel = NoKernelCall
    /\ twin = NoTwin
    /\ kept = NoKept
    /\ app = NoApp

(***************************************************************************)
(* InterviewEngine: operations                                             *)
(***************************************************************************)
startAnalysis ==
    /\ ~SyncRunning
    /\ LogRoom(1)
    /\ status' = "ANALYZING"
    /\ logs' = Logged(<<"STATE Analyzing">>)
    /\ delivered' = Snapshot("ANALYZING", activeQuestion)
    /\ lastCall' = Outcome("startAnalysis", "ok")
    /\ UNCHANGED <<scope, currentDifficulty, evaluationMode, activeQuestion, turns,
                   scoreHistory, consecutiveWeakAnswers, timeViolations,
                   detectedSkillGaps, difficultyCeiling, terminationReason, pending>>

setGenerating ==
    /\ ~SyncRunning
    /\ status' = "GENERATING"
    /\ delivered' = Snapshot("GENERATING", activeQuestion)
    /\ lastCall' = Outcome("setGenerating", "ok")
    /\ UNCHANGED <<scope, currentDifficulty, evaluationMode, activeQuestion, turns,
                   scoreHistory, consecutiveWeakAnswers, timeViolations,
                   detectedSkillGaps, difficultyCeiling, terminationReason, logs, pending>>

reset ==
    /\ ~SyncRunning
    /\ getInitialState
    /\ delivered' = Snapshot("IDLE", NoQuestion)
    /\ lastCall' = Outcome("reset", "ok")
    /\ UNCHANGED <<scope, pending>>

(***************************************************************************)
(* Inputs explored, per scope                                              *)
(***************************************************************************)
React == Skill("react", TRUE, FALSE)
GraphQL == Skill("graphql", TRUE, FALSE)
Aws == Skill("aws", TRUE, FALSE)
TypeScript == Skill("typescript", TRUE, FALSE)
Node == Skill("node", TRUE, FALSE)

Role(level, primary, secondary) ==
    [complexityLevel |-> level, primarySkills |-> primary, secondarySkills |-> secondary]

Roles ==
    CASE scope = "wide" ->
            { Role("Senior", <<React, GraphQL>>, <<Aws>>),
              Role("Mid", <<React>>, <<>>),
              Role("Lead", <<>>, <<Skill("aws", TRUE, TRUE)>>) }
      [] scope \in {"deep", "replay"} ->
            { Role("Mid", <<React>>, <<>>), Role("Mid", <<GraphQL>>, <<>>) }
      \* five primary skills, and none
      [] scope = "gaps" ->
            { Role("Senior", <<React, GraphQL, Aws, TypeScript, Node>>, <<>>),
              Role("Junior", <<>>, <<React>>) }
      [] OTHER -> { Role("Mid", <<React>>, <<>>) }

\* ResumeData.skills, names only
Profiles ==
    CASE scope = "wide" ->
            { <<Skill("react", FALSE, TRUE)>>, <<>> }
      \* three, two and none of the five primary skills
      [] scope = "gaps" ->
            { <<Skill("react", FALSE, TRUE), GraphQL, Aws>>, <<React, GraphQL>>, <<>> }
      [] OTHER -> { <<React>> }

TargetSkills ==
    CASE scope = "wide" -> { Skill("graphql", FALSE, FALSE), Aws }
      [] scope = "replay" -> { React, GraphQL }
      [] OTHER -> { React }

Answers ==
    CASE scope = "wide" -> { Text(0, TRUE), Text(6, FALSE) }
      [] scope = "filter" -> { Text(7, TRUE), Text(4, FALSE), Text(5, FALSE),
                               Text(6, FALSE), Text(20, FALSE) }
      [] OTHER -> { Text(20, FALSE) }

Times ==
    CASE scope \in {"timing", "replay"} -> { 30, 65 }
      [] scope = "wide" -> { 1, 61 }
      [] scope = "filter" -> { 1, 2 }
      [] OTHER -> { 30 }

Uniform(x, fallback) ==
    [accuracy |-> x, depth |-> x, clarity |-> x, relevance |-> x, isFallback |-> fallback]

\* what evaluateAnswer may resolve to
EvalResults ==
    CASE scope = "deep" -> { Uniform(90, FALSE), Uniform(40, FALSE) }
      [] scope = "timing" -> { Uniform(90, FALSE), Uniform(10, FALSE) }
      [] scope = "wide" -> { Uniform(100, FALSE), Uniform(45, FALSE), Uniform(10, TRUE) }
      [] scope = "fallback" -> { Uniform(90, FALSE), Uniform(90, TRUE) }
      \* a strong evaluation of the external service, and a failed one of the fallback
      [] scope = "app" -> { Uniform(90, FALSE), Uniform(10, TRUE) }
      \* an evaluation with a criterion of 7.5, and the fallback evaluator's for a short
      \* answer without keywords
      [] scope = "filter" ->
            { [accuracy |-> 100, depth |-> 100, clarity |-> 75, relevance |-> 100,
               isFallback |-> FALSE],
              [accuracy |-> 40, depth |-> 30, clarity |-> 60, relevance |-> 40,
               isFallback |-> TRUE] }
      [] scope = "replay" -> { Uniform(90, FALSE), Uniform(40, FALSE), Uniform(10, TRUE) }
      [] OTHER -> { Uniform(40, FALSE), Uniform(40, TRUE) }

\* identifiers of the questions that were answered
UsedIds ==
    {c.question.id : c \in pending} \cup {turns[i].question.id : i \in 1..Len(turns)}

\* crypto.randomUUID(): an identifier no answered question carries
FreshId == CHOOSE n \in 1..(Cardinality(UsedIds) + 1) : n \notin UsedIds

Questions == {[id |-> FreshId, targetSkill |-> s] : s \in TargetSkills}

(***************************************************************************)
(* InterviewEngine: initialization and question presentation               *)
(***************************************************************************)
\* a ceiling that is worked out anew by every analysis
CeilingRecomputed(belowThreshold) == IF belowThreshold THEN CAP_LEVEL ELSE NoCeiling

\* the ceiling is assigned only when the match rate is below the threshold
CeilingAfter(belowThreshold) == IF belowThreshold THEN CAP_LEVEL ELSE difficultyCeiling

initializeSession(jd, resume) ==
    LET startDiff == InitialDifficulty(jd.complexityLevel)
        resumeSkills == {trim(toLowerCase(resume[i])) : i \in 1..Len(resume)}
        Missing(skill) == trim(toLowerCase(skill)) \notin resumeSkills
        primaryGaps == SelectSeq(jd.primarySkills, Missing)
        secondaryGaps == SelectSeq(jd.secondarySkills, Missing)
        gaps == [i \in 1..Len(primaryGaps) |-> [skill |-> primaryGaps[i], type |-> "PRIMARY"]]
                \o [i \in 1..Len(secondaryGaps) |-> [skill |-> secondaryGaps[i], type |-> "SECONDARY"]]
        primaryMissing == Len(primaryGaps)
        primaryCount == Len(jd.primarySkills)
        \* primaryMatchRate < CRITICAL_GAP_MATCH_THRESHOLD, the rate being 1 without primary skills
        belowThreshold ==
            IF primaryCount > 0
            THEN (primaryCount - primaryMissing) * THRESHOLD_DEN < THRESHOLD_NUM * primaryCount
            ELSE THRESHOLD_DEN < THRESHOLD_NUM
    IN  /\ ~SyncRunning
        /\ LogRoom(4)
        /\ currentDifficulty' = startDiff
        /\ detectedSkillGaps' = gaps
        /\ difficultyCeiling' = CeilingAfter(belowThreshold)
        /\ status' = "IDLE"
        /\ logs' = Logged(<<"POLICY Initial Difficulty", "ANALYSIS Skill gaps">>
                          \o (IF belowThreshold THEN <<"POLICY Difficulty Capped">> ELSE <<>>)
                          \o <<"STATE Initialization Complete">>)
        /\ delivered' = Snapshot(status', activeQuestion)
        /\ lastCall' = Outcome("initializeSession", "ok")
        /\ UNCHANGED <<scope, evaluationMode, activeQuestion, turns, scoreHistory,
                       consecutiveWeakAnswers, timeViolations, terminationReason, pending>>

\* a presentQuestion that sets the status and notifies before it stores the question
presentStatusFirst(q, before) ==
    /\ status' = "INTERVIEWING"
    /\ delivered' = Snapshot(status', activeQuestion)
    /\ activeQuestion' = q
    /\ logs' = Logged(before \o <<"QUESTION Presented">>)
    /\ UNCHANGED <<scope, currentDifficulty, evaluationMode, turns, scoreHistory,
                   consecutiveWeakAnswers, timeViolations, detectedSkillGaps,
                   difficultyCeiling, terminationReason, pending>>

\* the body of presentQuestion, after `before` were logged by the caller
present(q, before) ==
    /\ activeQuestion' = q
    /\ status' = "INTERVIEWING"
    /\ logs' = Logged(before \o <<"QUESTION Presented">>)
    /\ delivered' = Snapshot(status', activeQuestion')
    /\ UNCHANGED <<scope, currentDifficulty, evaluationMode, turns, scoreHistory,
                   consecutiveWeakAnswers, timeViolations, detectedSkillGaps,
                   difficultyCeiling, terminationReason, pending>>

presentQuestion(q) ==
    /\ ~SyncRunning
    /\ LogRoom(1)
    /\ present(q, <<>>)
    /\ lastCall' = Outcome("presentQuestion", "ok")

startInterview(firstQuestion) ==
    /\ ~SyncRunning
    /\ IF status # "IDLE" /\ status # "GENERATING"
       THEN /\ lastCall' = Outcome("startInterview", "ignored")
            /\ UNCHANGED <<scope, sessionVars, pending, delivered>>
       ELSE /\ LogRoom(2)
            /\ present(firstQuestion, <<"STATE Session Initialized">>)
            /\ lastCall' = Outcome("startInterview", "ok")

(***************************************************************************)
(* InterviewEngine: submitAnswer                                           *)
(***************************************************************************)
\* an emptiness test that does not trim the answer
IsEmptyAnswerUntrimmed(answerText) == answerText.len = 0

\* !answerText || answerText.trim().length === 0
IsEmptyAnswer(answerText) == answerText.len = 0 \/ answerText.blank

\* a spam test that includes both limits
IsSpamAnswerInclusive(answerText, timeTakenSeconds) ==
    /\ ~IsEmptyAnswer(answerText)
    /\ timeTakenSeconds * 1000 <= MIN_ANSWER_TIME_MS
    /\ answerText.len >= SPAM_MIN_LENGTH

IsSpamAnswer(answerText, timeTakenSeconds) ==
    /\ ~IsEmptyAnswer(answerText)
    /\ timeTakenSeconds * 1000 < MIN_ANSWER_TIME_MS
    /\ answerText.len > SPAM_MIN_LENGTH

\* the criteria the pre-evaluation filters force, without a call of evaluateAnswer
LocalEvaluation(answerText) ==
    IF IsEmptyAnswer(answerText)
    THEN Uniform(EMPTY_ANSWER_SCORE, TRUE)
    ELSE Uniform(SPAM_ANSWER_SCORE, TRUE)

\* submitAnswer returning early: nothing is written and nobody is notified
submitRejected(outcome) ==
    /\ lastCall' = Outcome("submitAnswer", outcome)
    /\ UNCHANGED <<scope, sessionVars, pending, delivered>>

\* submitAnswer past its guards, up to its suspension in `await evaluateAnswer(...)`;
\* for an empty or spam answer up to the end of the pre-evaluation filters
submitAccepted(answerText, timeTakenSeconds) ==
    /\ Len(turns) + Cardinality(pending) < MaxTurns
    /\ Cardinality(pending) < InFlightLimit
    /\ status' = "EVALUATING"
    /\ delivered' = Snapshot(status', activeQuestion)
    /\ logs' = Logged(<<"EVENT Answer submitted">>
                      \o (IF IsEmptyAnswer(answerText) THEN <<"EDGE CASE Empty answer">>
                          ELSE IF IsSpamAnswer(answerText, timeTakenSeconds)
                          THEN <<"EDGE CASE Spam">> ELSE <<>>))
    /\ pending' = pending \cup
           {[question |-> activeQuestion, answer |-> answerText,
             timeTakenSeconds |-> timeTakenSeconds,
             local |-> IsEmptyAnswer(answerText)
                       \/ IsSpamAnswer(answerText, timeTakenSeconds)]}
    /\ lastCall' = Outcome("submitAnswer", "accepted")
    /\ UNCHANGED <<scope, currentDifficulty, evaluationMode, activeQuestion, turns,
                   scoreHistory, consecutiveWeakAnswers, timeViolations,
                   detectedSkillGaps, difficultyCeiling, terminationReason>>

\* a submitAnswer that freezes the state without looking at the status
submitAnswerUnguarded(answerText, timeTakenSeconds) ==
    /\ ~SyncRunning
    /\ IF activeQuestion = NoQuestion
       THEN submitRejected("threw")
       ELSE submitAccepted(answerText, timeTakenSeconds)

submitAnswer(answerText, timeTakenSeconds) ==
    /\ ~SyncRunning
    /\ IF activeQuestion = NoQuestion
       THEN submitRejected("threw")
       ELSE IF status # "INTERVIEWING"
       THEN submitRejected("ignored")
       ELSE submitAccepted(answerText, timeTakenSeconds)

\* a strike system in which a good answer takes one strike back
StrikeCounterForgivesOne(counter, finalScore) ==
    IF finalScore <= CRITICAL_FAIL_SCORE THEN counter + CRITICAL_FAIL_STRIKES
    ELSE IF finalScore <= WEAK_SCORE THEN counter + 1
    ELSE IF counter > 0 THEN counter - 1 ELSE 0

\* a strike system without the recovery reset
StrikeCounterNoRecovery(counter, finalScore) ==
    IF finalScore <= CRITICAL_FAIL_SCORE THEN counter + CRITICAL_FAIL_STRIKES
    ELSE IF finalScore <= WEAK_SCORE THEN counter + 1
    ELSE counter

\* the strike counter after a turn with this final score
StrikeCounter(counter, finalScore) ==
    IF finalScore <= CRITICAL_FAIL_SCORE THEN counter + CRITICAL_FAIL_STRIKES
    ELSE IF finalScore <= WEAK_SCORE THEN counter + 1
    ELSE 0

Terminated(kind, count, limit) ==
    [status |-> "TERMINATED", reason |-> [kind |-> kind, count |-> count, limit |-> limit]]

\* a checkTermination after which submitAnswer forgets the transition to GENERATING
checkTerminationNoTransition(violations, strikes, turnCount) ==
    IF violations > MAX_VIOLATIONS_ALLOWED
    THEN Terminated("TIME", violations, MAX_VIOLATIONS_ALLOWED)
    ELSE IF strikes >= STRIKE_LIMIT
    THEN Terminated("STRIKES", strikes, 0)
    ELSE IF turnCount >= MAX_QUESTIONS
    THEN [status |-> "COMPLETED", reason |-> terminationReason]
    ELSE [status |-> status, reason |-> terminationReason]

\* a checkTermination that looks at the question limit first
checkTerminationLimitFirst(violations, strikes, turnCount) ==
    IF turnCount >= MAX_QUESTIONS
    THEN [status |-> "COMPLETED", reason |-> terminationReason]
    ELSE IF violations > MAX_VIOLATIONS_ALLOWED
    THEN Terminated("TIME", violations, MAX_VIOLATIONS_ALLOWED)
    ELSE IF strikes >= STRIKE_LIMIT
    THEN Terminated("STRIKES", strikes, 0)
    ELSE [status |-> "GENERATING", reason |-> terminationReason]

\* a checkTermination that needs more strikes than the limit
checkTerminationAboveLimit(violations, strikes, turnCount) ==
    IF violations > MAX_VIOLATIONS_ALLOWED
    THEN Terminated("TIME", violations, MAX_VIOLATIONS_ALLOWED)
    ELSE IF strikes > STRIKE_LIMIT
    THEN Terminated("STRIKES", strikes, 0)
    ELSE IF turnCount >= MAX_QUESTIONS
    THEN [status |-> "COMPLETED", reason |-> terminationReason]
    ELSE [status |-> "GENERATING", reason |-> terminationReason]

\* a checkTermination that terminates on reaching the violation limit
checkTerminationAtViolationLimit(violations, strikes, turnCount) ==
    IF violations >= MAX_VIOLATIONS_ALLOWED
    THEN Terminated("TIME", violations, MAX_VIOLATIONS_ALLOWED)
    ELSE IF strikes >= STRIKE_LIMIT
    THEN Terminated("STRIKES", strikes, 0)
    ELSE IF turnCount >= MAX_QUESTIONS
    THEN [status |-> "COMPLETED", reason |-> terminationReason]
    ELSE [status |-> "GENERATING", reason |-> terminationReason]

\* checkTermination and terminate: the status and reason they set, "GENERATING" when
\* checkTermination returns false
checkTermination(violations, strikes, turnCount) ==
    IF violations > MAX_VIOLATIONS_ALLOWED
    THEN Terminated("TIME", violations, MAX_VIOLATIONS_ALLOWED)
    ELSE IF strikes >= STRIKE_LIMIT
    THEN Terminated("STRIKES", strikes, 0)
    ELSE IF turnCount >= MAX_QUESTIONS
    THEN [status |-> "COMPLETED", reason |-> terminationReason]
    ELSE [status |-> "GENERATING", reason |-> terminationReason]

\* the rest of submitAnswer: from the evaluation (local, or the one evaluateAnswer
\* resolved to) to the end
\* a turn list that keeps the latest turn only in the place of the one before
RecordTurnOverLast(ts, turn) ==
    IF ts = <<>> THEN <<turn>> ELSE [ts EXCEPT ![Len(ts)] = turn]

\* this.state.turns.push(turn)
RecordTurn(ts, turn) == Append(ts, turn)

\* a score history with the newest score first
RecordScoreFirst(history, finalScore) == <<finalScore>> \o history

\* this.state.scoreHistory.push(finalScore)
RecordScore(history, finalScore) == Append(history, finalScore)

\* a mode switch, with its warning, on every evaluation of the fallback evaluator
SwitchesModeOnEveryFallback(call, result) == ~call.local /\ result.isFallback

\* the evaluation came from evaluateAnswer with the fallback flag, and the mode is not
\* FALLBACK_RULE_BASED yet
SwitchesMode(call, result) ==
    ~call.local /\ result.isFallback /\ evaluationMode # "FALLBACK_RULE_BASED"

submitAnswerResume(call, result) ==
    LET rawEvaluation == IF call.local THEN LocalEvaluation(call.answer) ELSE result
        switchMode == SwitchesMode(call, result)
        baseScore == calculateScore(rawEvaluation)
        timeLogic == calculateTimeLogic(call.timeTakenSeconds)
        gap == checkSkillGap(call.question.targetSkill, detectedSkillGaps)
        finalScore == Max(0, baseScore - timeLogic.penalty - gap.penalty)
        nextDiff == nextDifficulty(currentDifficulty, finalScore, difficultyCeiling)
        violations == IF timeLogic.isViolation THEN timeViolations + 1 ELSE timeViolations
        strikes == StrikeCounter(consecutiveWeakAnswers, finalScore)
        turn == [question |-> call.question,
                 answer |-> call.answer,
                 evaluation |->
                     [accuracy |-> rawEvaluation.accuracy, depth |-> rawEvaluation.depth,
                      clarity |-> rawEvaluation.clarity, relevance |-> rawEvaluation.relevance,
                      isFallback |-> rawEvaluation.isFallback,
                      totalScore |-> baseScore,
                      timeTakenSeconds |-> call.timeTakenSeconds,
                      timePenalty |-> timeLogic.penalty,
                      finalScore |-> finalScore,
                      skillGapPenalty |-> gap.penalty],
                 difficultyBefore |-> currentDifficulty,
                 difficultyAfter |-> nextDiff,
                 criticalFailure |-> finalScore <= CRITICAL_FAIL_SCORE]
        outcome == checkTermination(violations, strikes, Len(turns) + 1)
    IN  /\ call \in pending
        /\ SyncRunning => call.local
        /\ pending' = pending \ {call}
        /\ evaluationMode' = IF switchMode THEN "FALLBACK_RULE_BASED" ELSE evaluationMode
        /\ timeViolations' = violations
        /\ consecutiveWeakAnswers' = strikes
        /\ turns' = RecordTurn(turns, turn)
        /\ scoreHistory' = RecordScore(scoreHistory, finalScore)
        /\ currentDifficulty' = nextDiff
        /\ activeQuestion' = NoQuestion
        /\ status' = outcome.status
        /\ terminationReason' = outcome.reason
        /\ logs' = Logged((IF switchMode THEN <<"WARN Fallback Mode">> ELSE <<>>)
                          \o (IF timeLogic.isViolation THEN <<"POLICY Time Violation">> ELSE <<>>)
                          \o (IF gap.penalty > 0 THEN <<"POLICY Skill Gap">> ELSE <<>>)
                          \o <<"SCORE">>
                          \o (IF nextDiff # currentDifficulty THEN <<"ADAPT">> ELSE <<>>)
                          \o (IF finalScore <= WEAK_SCORE THEN <<"RISK">>
                              ELSE IF consecutiveWeakAnswers > 0 THEN <<"RECOVERY">> ELSE <<>>)
                          \o (IF outcome.status # "GENERATING" THEN <<"FINAL", "TERM">> ELSE <<>>))
        /\ delivered' = Snapshot(status', activeQuestion')
        /\ lastCall' = Outcome("submitAnswerResume", "ok")
        /\ UNCHANGED <<scope, detectedSkillGaps, difficultyCeiling>>

(***************************************************************************)
(* Specification: the engine's public methods called in any order, with    *)
(* the evaluations in flight resolving at any time                         *)
(***************************************************************************)
Next ==
    \/ startAnalysis /\ UNCHANGED <<kernel, twin, kept, app>>
    \/ \E jd \in Roles, resume \in Profiles :
          initializeSession(jd, resume) /\ UNCHANGED <<kernel, twin, kept, app>>
    \/ setGenerating /\ UNCHANGED <<kernel, twin, kept, app>>
    \/ \E q \in Questions : startInterview(q) /\ UNCHANGED <<kernel, twin, kept, app>>
    \/ \E q \in Questions : presentQuestion(q) /\ UNCHANGED <<kernel, twin, kept, app>>
    \/ \E a \in Answers, t \in Times : submitAnswer(a, t) /\ UNCHANGED <<kernel, twin, kept, app>>
    \/ \E call \in pending, r \in EvalResults :
          submitAnswerResume(call, r) /\ UNCHANGED <<kernel, twin, kept, app>>
    \/ reset /\ UNCHANGED <<kernel, twin, kept, app>>

Spec == Init /\ [][Next]_vars

(***************************************************************************)
(* Specification: the functions of LogicCore applied on their own to every *)
(* argument within the bounds                                              *)
(***************************************************************************)
KernelCall(fn, current, score, ceiling, seconds) ==
    [fn |-> fn, current |-> current, score |-> score, ceiling |-> ceiling,
     seconds |-> seconds, done |-> FALSE,
     difficulty |-> current, penalty |-> 0, isViolation |-> FALSE]

\* a call of FallbackRegistry.evaluate
EvaluateCall(keywordHits, length) ==
    [fn |-> "evaluate", keywordHits |-> keywordHits, length |-> length, done |-> FALSE,
     evaluation |-> Criteria(0, 0, 0, 0)]

\* a call of generateQuestion that falls back to the pool, after the questions
\* `previousQuestions` of the pool were asked
GenerateCall(previousQuestions) ==
    [fn |-> "generateQuestion", previousQuestions |-> previousQuestions, done |-> FALSE,
     picked |-> 0]

KernelCalls ==
    {KernelCall("nextDifficulty", d, s, c, 0) :
        d \in Difficulties, s \in 0..MaxKernelScore, c \in Difficulties \cup {NoCeiling}}
    \cup {KernelCall("calculateTimeLogic", "Easy", 0, NoCeiling, t) : t \in 0..MaxKernelSeconds}
    \cup {EvaluateCall(h, n) : h \in 0..MaxKeywordHits, n \in 0..MaxAnswerLength}
    \cup {GenerateCall(asked) : asked \in SUBSET (1..POOL_SIZE)}

KernelInit ==
    /\ scope = "kernel"
    /\ Constructed
    /\ kernel \in KernelCalls
    /\ twin = NoTwin
    /\ kept = NoKept
    /\ app = NoApp

applyNextDifficulty ==
    /\ kernel.fn = "nextDifficulty"
    /\ ~kernel.done
    /\ kernel' = [kernel EXCEPT
                      !.done = TRUE,
                      !.difficulty = nextDifficulty(kernel.current, kernel.score, kernel.ceiling)]
    /\ UNCHANGED <<scope, sessionVars, pending, delivered, lastCall, twin, kept, app>>

applyCalculateTimeLogic ==
    /\ kernel.fn = "calculateTimeLogic"
    /\ ~kernel.done
    /\ kernel' = [kernel EXCEPT
                      !.done = TRUE,
                      !.penalty = calculateTimeLogic(kernel.seconds).penalty,
                      !.isViolation = calculateTimeLogic(kernel.seconds).isViolation]
    /\ UNCHANGED <<scope, sessionVars, pending, delivered, lastCall, twin, kept, app>>

applyEvaluate ==
    /\ kernel.fn = "evaluate"
    /\ ~kernel.done
    /\ kernel' = [kernel EXCEPT
                      !.done = TRUE,
                      !.evaluation = evaluate(kernel.keywordHits, kernel.length)]
    /\ UNCHANGED <<scope, sessionVars, pending, delivered, lastCall, twin, kept, app>>

applyGenerateQuestion ==
    /\ kernel.fn = "generateQuestion"
    /\ ~kernel.done
    /\ \E i \in FallbackPicks(kernel.previousQuestions) :
          kernel' = [kernel EXCEPT !.done = TRUE, !.picked = i]
    /\ UNCHANGED <<scope, sessionVars, pending, delivered, lastCall, twin, kept, app>>

KernelNext ==
    \/ applyNextDifficulty
    \/ applyCalculateTimeLogic
    \/ applyEvaluate
    \/ applyGenerateQuestion

KernelSpec == KernelInit /\ [][KernelNext]_vars

(***************************************************************************)
(* Specification: a session driven in order (initializeSession, then for   *)
(* each question startInterview or presentQuestion, submitAnswer and the   *)
(* end of the evaluation), then reset and driven again with the inputs of  *)
(* the first session and freshly generated question identifiers            *)
(***************************************************************************)
ReplayInit ==
    /\ scope = "replay"
    /\ Constructed
    /\ kernel = NoKernelCall
    /\ twin = NoTwin
    /\ kept = NoKept
    /\ app = NoApp

\* the turn of the first session the second one is at
ReplayedTurn == twin.turns[Len(turns) + 1]

replayInitialize ==
    /\ twin.phase \in {"none", "reset"}
    /\ IF twin.phase = "none"
       THEN \E jd \in Roles, resume \in Profiles :
                /\ initializeSession(jd, resume)
                /\ twin' = Twin("first", jd, resume, <<>>, twin.final)
       ELSE /\ initializeSession(twin.role, twin.profile)
            /\ twin' = [twin EXCEPT !.phase = "second"]
    /\ UNCHANGED <<kernel, kept, app>>

\* the questions that may be asked next: in the second session one on the skill asked
\* about in the first, under an identifier the first session did not use
ReplayQuestions ==
    IF twin.phase = "second"
    THEN IF Len(turns) < Len(twin.turns)
         THEN {[id |-> Len(twin.turns) + FreshId,
                targetSkill |-> ReplayedTurn.question.targetSkill]}
         ELSE {}
    ELSE Questions

replayAsk ==
    /\ twin.phase \in {"first", "second"}
    /\ status \in {"IDLE", "GENERATING"}
    /\ pending = {}
    /\ \E q \in ReplayQuestions :
          IF turns = <<>> THEN startInterview(q) ELSE presentQuestion(q)
    /\ UNCHANGED <<kernel, twin, kept, app>>

replayAnswer ==
    /\ twin.phase \in {"first", "second"}
    /\ status = "INTERVIEWING"
    /\ IF twin.phase = "first"
       THEN \E a \in Answers, t \in Times : submitAnswer(a, t)
       ELSE submitAnswer(ReplayedTurn.answer, ReplayedTurn.evaluation.timeTakenSeconds)
    /\ UNCHANGED <<kernel, twin, kept, app>>

\* what evaluateAnswer may resolve to: in the second session the criteria of the first,
\* from the external evaluator or from the fallback one
ReplayResults ==
    IF twin.phase = "second"
    THEN IF Len(turns) < Len(twin.turns)
         THEN {[accuracy |-> ReplayedTurn.evaluation.accuracy,
                depth |-> ReplayedTurn.evaluation.depth,
                clarity |-> ReplayedTurn.evaluation.clarity,
                relevance |-> ReplayedTurn.evaluation.relevance,
                isFallback |-> f] : f \in BOOLEAN}
         ELSE {}
    ELSE EvalResults

replayEvaluate ==
    /\ twin.phase \in {"first", "second"}
    /\ \E call \in pending, r \in ReplayResults : submitAnswerResume(call, r)
    /\ UNCHANGED <<kernel, twin, kept, app>>

replayRestart ==
    /\ twin.phase = "first"
    /\ pending = {}
    /\ activeQuestion = NoQuestion
    /\ turns # <<>>
    /\ reset
    /\ twin' = [twin EXCEPT !.phase = "reset", !.turns = turns, !.final = SessionOutcome]
    /\ UNCHANGED <<kernel, kept, app>>

ReplayNext ==
    \/ replayInitialize
    \/ replayAsk
    \/ replayAnswer
    \/ replayEvaluate
    \/ replayRestart

ReplaySpec == ReplayInit /\ [][ReplayNext]_vars

(***************************************************************************)
(* Specification: the engine's public methods called in any order, and a   *)
(* subscriber that keeps the state object one notification handed to it    *)
(***************************************************************************)
ObserverInit ==
    /\ scope = "observer"
    /\ Constructed
    /\ kernel = NoKernelCall
    /\ twin = NoTwin
    /\ kept = NoKept
    /\ app = NoApp

\* the subscriber's callback stores the object notify() passes: cb(this.state)
keep ==
    /\ ~kept.held
    /\ delivered.status # "none"
    /\ kept' = [held |-> TRUE, live |-> TRUE, given |-> Fields, seen |-> Fields]
    /\ UNCHANGED <<scope, sessionVars, pending, delivered, lastCall, kernel, twin, app>>

\* the engine assigns to the fields of this.state in place: an object kept from a
\* notification shows the assignments for as long as it is this.state
MutatedInPlace ==
    kept' = IF kept.held /\ kept.live THEN [kept EXCEPT !.seen = Fields'] ELSE kept

\* reset() assigns a new object to this.state: the one kept is left as it is
Replaced == kept' = [kept EXCEPT !.live = FALSE]

ObserverNext ==
    \/ keep
    \/ startAnalysis /\ MutatedInPlace /\ UNCHANGED <<kernel, twin, app>>
    \/ \E jd \in Roles, resume \in Profiles :
          initializeSession(jd, resume) /\ MutatedInPlace /\ UNCHANGED <<kernel, twin, app>>
    \/ setGenerating /\ MutatedInPlace /\ UNCHANGED <<kernel, twin, app>>
    \/ \E q \in Questions :
          startInterview(q) /\ MutatedInPlace /\ UNCHANGED <<kernel, twin, app>>
    \/ \E q \in Questions :
          presentQuestion(q) /\ MutatedInPlace /\ UNCHANGED <<kernel, twin, app>>
    \/ \E a \in Answers, t \in Times :
          submitAnswer(a, t) /\ MutatedInPlace /\ UNCHANGED <<kernel, twin, app>>
    \/ \E call \in pending, r \in EvalResults :
          submitAnswerResume(call, r) /\ MutatedInPlace /\ UNCHANGED <<kernel, twin, app>>
    \/ reset /\ Replaced /\ UNCHANGED <<kernel, twin, app>>

ObserverSpec == ObserverInit /\ [][ObserverNext]_vars

(***************************************************************************)
(* Specification: the engine driven by App.  A handler runs when its       *)
(* button is on the screen, or a second time before the screen changed;    *)
(* the calls a handler awaits resolve at any time; the timer submits an    *)
(* answer that is not submitted by hand                                    *)
(***************************************************************************)
AppInit ==
    /\ scope = "app"
    /\ Constructed
    /\ kernel = NoKernelCall
    /\ twin = NoTwin
    /\ kept = NoKept
    /\ app = NoApp

\* handleStartAnalysis up to `await Promise.all([parseResume, parseJD])`
handleStartAnalysis ==
    /\ \/ status = "IDLE" /\ ~app.data
       \/ status = "ANALYZING" /\ app.parses > 0
    /\ IF status = "ANALYZING"
       THEN UNCHANGED <<scope, sessionVars, pending, delivered, lastCall, app>>
       ELSE /\ startAnalysis
            /\ app' = [app EXCEPT !.parses = @ + 1, !.error = FALSE]
    /\ UNCHANGED <<kernel, twin, kept>>

\* handleStartAnalysis after the await: both documents were parsed (by the service or by
\* its fallback)
handleStartAnalysisResume ==
    /\ app.parses > 0
    /\ \E jd \in Roles, resume \in Profiles : initializeSession(jd, resume)
    /\ app' = [app EXCEPT !.parses = @ - 1, !.data = TRUE]
    /\ UNCHANGED <<kernel, twin, kept>>

\* a handleBeginSession without the check of the status
handleBeginSessionUnguarded ==
    /\ \/ status = "IDLE" /\ app.data
       \/ status = "GENERATING" /\ app.begins > 0
    /\ IF ~app.data
       THEN /\ app' = [app EXCEPT !.lastBegin = "ignored"]
            /\ UNCHANGED <<scope, sessionVars, pending, delivered, lastCall>>
       ELSE /\ setGenerating
            /\ app' = [app EXCEPT !.begins = @ + 1, !.begun = @ + 1,
                                  !.lastBegin = "accepted"]
    /\ UNCHANGED <<kernel, twin, kept>>

\* handleBeginSession up to `await GeminiService.generateQuestion(...)`
handleBeginSession ==
    /\ \/ status = "IDLE" /\ app.data
       \/ status = "GENERATING" /\ app.begins > 0
    /\ IF status # "IDLE" \/ ~app.data
       THEN /\ app' = [app EXCEPT !.lastBegin = "ignored"]
            /\ UNCHANGED <<scope, sessionVars, pending, delivered, lastCall>>
       ELSE /\ setGenerating
            /\ app' = [app EXCEPT !.begins = @ + 1, !.begun = @ + 1,
                                  !.lastBegin = "accepted"]
    /\ UNCHANGED <<kernel, twin, kept>>

\* handleBeginSession after the await: the first question was generated (by the service
\* or from the fallback pool)
handleBeginSessionResume ==
    /\ app.begins > 0
    /\ IF status = "GENERATING"
       THEN /\ \E q \in Questions : startInterview(q)
            /\ app' = [app EXCEPT !.begins = @ - 1, !.started = @ + 1]
       ELSE /\ app' = [app EXCEPT !.begins = @ - 1]
            /\ UNCHANGED <<scope, sessionVars, pending, delivered, lastCall>>
    /\ UNCHANGED <<kernel, twin, kept>>

\* engine.submitAnswer as executeSubmission calls it; a call that throws sets the error
engineSubmitAnswer(answerText, timeTakenSeconds) ==
    /\ submitAnswer(answerText, timeTakenSeconds)
    /\ app' = IF activeQuestion = NoQuestion THEN [app EXCEPT !.error = TRUE] ELSE app

\* what the countdown of a question may show when Submit is clicked: it starts at
\* timeLimitPerQuestion, loses one every second and stops at 0
TimeLefts == { LIMIT_SEC, LIMIT_SEC \div 2, 0 }

\* a time taken that adds what is left to the limit
timeTakenPlusLeft(timeLeft) == LIMIT_SEC + timeLeft

\* the time taken that handleManualSubmit passes on
timeTaken(timeLeft) == Max(0, LIMIT_SEC - timeLeft)

\* handleManualSubmit: the time taken is what the timer has counted down
handleManualSubmit ==
    /\ status \in {"INTERVIEWING", "EVALUATING"}
    /\ IF status # "INTERVIEWING" \/ delivered.activeQuestion = NoQuestion \/ ~app.data
       THEN UNCHANGED <<scope, sessionVars, pending, delivered, lastCall, app>>
       ELSE \E a \in Answers, timeLeft \in TimeLefts :
                engineSubmitAnswer(a, timeTaken(timeLeft))
    /\ UNCHANGED <<kernel, twin, kept>>

\* handleAutoSubmit, called by the timer of a question when it has run down
handleAutoSubmit ==
    /\ status = "INTERVIEWING"
    /\ delivered.activeQuestion # NoQuestion
    /\ app.data
    /\ \E a \in Answers : engineSubmitAnswer(a, LIMIT_SEC)
    /\ UNCHANGED <<kernel, twin, kept>>

\* an executeSubmission that asks for no further question
executeSubmissionNoFetch(call, result) ==
    /\ submitAnswerResume(call, result)
    /\ app' = app

\* executeSubmission after `await engine.submitAnswer(...)`, up to the await in
\* fetchNextQuestion
executeSubmission(call, result) ==
    /\ submitAnswerResume(call, result)
    /\ app' = IF status' = "GENERATING" THEN [app EXCEPT !.fetches = @ + 1] ELSE app

executeSubmissionResume ==
    /\ \E call \in pending, r \in EvalResults : executeSubmission(call, r)
    /\ UNCHANGED <<kernel, twin, kept>>

\* fetchNextQuestion after the await: the next question was generated
fetchNextQuestionResume ==
    /\ app.fetches > 0
    /\ \E q \in Questions : presentQuestion(q)
    /\ app' = [app EXCEPT !.fetches = @ - 1]
    /\ UNCHANGED <<kernel, twin, kept>>

\* handleReset; the Reset button is shown in every status but IDLE
handleReset ==
    /\ status # "IDLE"
    /\ app.resets < MaxAppResets
    /\ reset
    /\ app' = [app EXCEPT !.data = FALSE, !.error = FALSE, !.resets = @ + 1]
    /\ UNCHANGED <<kernel, twin, kept>>

AppNext ==
    \/ handleStartAnalysis
    \/ handleStartAnalysisResume
    \/ handleBeginSession
    \/ handleBeginSessionResume
    \/ handleManualSubmit
    \/ handleAutoSubmit
    \/ executeSubmissionResume
    \/ fetchNextQuestionResume
    \/ handleReset

\* every call awaited returns, and the timer of a question runs down
AppFairness ==
    /\ WF_vars(handleStartAnalysisResume)
    /\ WF_vars(handleBeginSessionResume)
    /\ WF_vars(executeSubmissionResume)
    /\ WF_vars(fetchNextQuestionResume)
    /\ WF_vars(handleAutoSubmit)

AppSpec == AppInit /\ [][AppNext]_vars /\ AppFairness

(***************************************************************************)
(* Specification: log() called over and over on the log of a new engine,   *)
(* each entry with a text of its own                                       *)
(***************************************************************************)
\* the entries written so far
LogCall(n) == [fn |-> "log", written |-> n]

LogInit ==
    /\ scope = "log"
    /\ Constructed
    /\ kernel = LogCall(0)
    /\ twin = NoTwin
    /\ kept = NoKept
    /\ app = NoApp

\* the text of the n-th entry written
Entry(n) == ToString(n)

applyLog ==
    /\ kernel.written < MaxLogged
    /\ logs' = log(logs, Entry(kernel.written + 1))
    /\ kernel' = LogCall(kernel.written + 1)
    /\ UNCHANGED <<scope, status, currentDifficulty, evaluationMode, activeQuestion, turns,
                   scoreHistory, consecutiveWeakAnswers, timeViolations, detectedSkillGaps,
                   difficultyCeiling, terminationReason, pending, delivered, lastCall,
                   twin, kept, app>>

LogNext == applyLog

LogSpec == LogInit /\ [][LogNext]_vars

(***************************************************************************)
(* Properties                                                              *)
(***************************************************************************)
Terminal == {"COMPLETED", "TERMINATED"}

\* the step is the end of a submitAnswer call: `call` leaves the calls in flight
Resumes(call) == call \in pending /\ pending' = pending \ {call}

WeakNotCritical(score) == score > CRITICAL_FAIL_SCORE /\ score <= WEAK_SCORE

FinalScoreOf(turn) == turn.evaluation.finalScore

\* C1: in every state handed to the subscribers, status INTERVIEWING comes with an
\* active question.
C1_DeliveredInterviewingHasQuestion ==
    delivered.status = "INTERVIEWING" => delivered.activeQuestion # NoQuestion

\* C1 witness: a later question of a session was presented and delivered.
C1_Witness ==
    /\ delivered.status = "INTERVIEWING"
    /\ delivered.activeQuestion = activeQuestion
    /\ Len(turns) >= 1

\* the edges of the documented state machine
DocumentedEdge(from, to) ==
    \/ from = "IDLE" /\ to = "ANALYZING"
    \/ from = "ANALYZING" /\ to = "IDLE"
    \/ from = "IDLE" /\ to = "GENERATING"
    \/ from = "GENERATING" /\ to = "INTERVIEWING"
    \/ from = "INTERVIEWING" /\ to = "EVALUATING"
    \/ from = "EVALUATING" /\ to \in {"GENERATING", "COMPLETED", "TERMINATED"}
    \/ to = "IDLE"

\* C2 (as claimed): every change of status follows an edge of the documented state
\* machine, reset's return to IDLE included.
C2_OnlyDocumentedEdges ==
    [][status' # status => DocumentedEdge(status, status')]_vars

\* the step restores the initial session, as reset does
RestoresInitialState ==
    /\ status' = "IDLE"
    /\ turns' = <<>>
    /\ consecutiveWeakAnswers' = 0
    /\ timeViolations' = 0

\* C3 (as claimed): from COMPLETED or TERMINATED only reset changes the status, the
\* turn list or the counters.
C3_TerminalAbsorbing ==
    [][(status \in Terminal =>
          \/ UNCHANGED <<status, turns, consecutiveWeakAnswers, timeViolations>>
          \/ RestoresInitialState)]_vars

\* C4: a submitAnswer call made without an active question throws, one made with an
\* active question outside INTERVIEWING returns early, and either leaves the session
\* state, the calls in flight and the subscribers untouched.
C4_RejectedSubmitChangesNothing ==
    [][((/\ activeQuestion = NoQuestion \/ status # "INTERVIEWING"
        /\ \E a \in Answers, t \in Times : submitAnswer(a, t))
       => /\ UNCHANGED <<sessionVars, pending, delivered>>
          /\ TrackLogs =>
                lastCall' = Call("submitAnswer",
                                 IF activeQuestion = NoQuestion THEN "threw" ELSE "ignored"))]_vars

\* C4 witness: a second submitAnswer was ignored while the first is being evaluated.
C4_Witness ==
    /\ lastCall = Call("submitAnswer", "ignored")
    /\ status = "EVALUATING"
    /\ activeQuestion # NoQuestion
    /\ pending # {}

\* C5 (as claimed): while an evaluation is outstanding the status is EVALUATING.
C5_EvaluatingWhileOutstanding ==
    pending # {} => status = "EVALUATING"

\* C6: the end of an accepted submitAnswer appends exactly one turn, for the question
\* the call was made on, clears the active question, and leaves the status GENERATING
\* when no termination rule fired and COMPLETED or TERMINATED otherwise.
C6_CompletedSubmit ==
    [][(\A call \in pending : Resumes(call) =>
          /\ Len(turns') = Len(turns) + 1
          /\ SubSeq(turns', 1, Len(turns)) = turns
          /\ turns'[Len(turns')].question = call.question
          /\ activeQuestion' = NoQuestion
          /\ status' \in {"GENERATING", "COMPLETED", "TERMINATED"}
          /\ status' = "GENERATING" <=>
                /\ timeViolations' <= MAX_VIOLATIONS_ALLOWED
                /\ consecutiveWeakAnswers' < STRIKE_LIMIT
                /\ Len(turns') < MAX_QUESTIONS)]_vars

\* C6 witness: a session completed on its last question.
C6_Witness ==
    /\ status = "COMPLETED"
    /\ Len(turns) = MAX_QUESTIONS
    /\ activeQuestion = NoQuestion
    /\ pending = {}

\* C7 (as claimed): startAnalysis called while ANALYZING changes nothing, and called
\* from any status other than IDLE it does not make the status ANALYZING.
C7_StartAnalysisOnlyFromIdle ==
    [][(startAnalysis =>
          /\ status = "ANALYZING" => UNCHANGED sessionVars
          /\ status \notin {"IDLE", "ANALYZING"} => status' # "ANALYZING")]_vars

\* C8: at the end of a turn, more than MAX_VIOLATIONS_ALLOWED time violations together
\* with STRIKE_LIMIT strikes terminate with the time reason, and STRIKE_LIMIT strikes
\* on the turn that reaches MAX_QUESTIONS terminate with the strike reason instead of
\* completing.
C8_TerminationPriority ==
    [][(\A call \in pending : Resumes(call) =>
          /\ (timeViolations' > MAX_VIOLATIONS_ALLOWED /\ consecutiveWeakAnswers' >= STRIKE_LIMIT)
                => /\ status' = "TERMINATED"
                   /\ terminationReason'.kind = "TIME"
                   /\ terminationReason'.count = timeViolations'
                   /\ terminationReason'.limit = MAX_VIOLATIONS_ALLOWED
          /\ (/\ timeViolations' <= MAX_VIOLATIONS_ALLOWED
              /\ consecutiveWeakAnswers' >= STRIKE_LIMIT
              /\ Len(turns') >= MAX_QUESTIONS)
                => /\ status' = "TERMINATED"
                   /\ terminationReason'.kind = "STRIKES"
                   /\ terminationReason'.count = consecutiveWeakAnswers')]_vars

\* C8 witness: two strong answers, then three weak ones, the third on the last question.
C8_Witness ==
    /\ Len(turns) = MAX_QUESTIONS
    /\ \A i \in 1..2 : FinalScoreOf(turns[i]) >= STRONG_SCORE
    /\ \A i \in 3..MAX_QUESTIONS : WeakNotCritical(FinalScoreOf(turns[i]))
    /\ consecutiveWeakAnswers = STRIKE_LIMIT
    /\ status = "TERMINATED"
    /\ terminationReason.kind = "STRIKES"

WeakRun(ts, n) ==
    /\ Len(ts) >= n
    /\ \A i \in (Len(ts) - n + 1)..Len(ts) : WeakNotCritical(FinalScoreOf(ts[i]))
    /\ Len(ts) > n => FinalScoreOf(ts[Len(ts) - n]) > WEAK_SCORE

C11_CriticalFailStrikes ==
    [][(/\ \A call \in pending : Resumes(call) =>
              LET n == Len(turns')
              IN  /\ turns'[n].criticalFailure
                        => consecutiveWeakAnswers' = consecutiveWeakAnswers + CRITICAL_FAIL_STRIKES
                  /\ (n >= 2 /\ turns'[n].criticalFailure /\ turns'[n - 1].criticalFailure)
                        => status' = "TERMINATED"
        /\ (consecutiveWeakAnswers >= STRIKE_LIMIT /\ status # "INTERVIEWING")
              => status' # "INTERVIEWING")]_vars

\* C12: the end of an accepted submitAnswer counts one time violation exactly when the
\* answer, empty ones included, took more than PENALTY_START_SEC seconds; the violation
\* that brings the counter above MAX_VIOLATIONS_ALLOWED terminates the session for the
\* time reason whatever the strike counter is, and an earlier violation does not
\* terminate it unless the strike limit is reached.
C12_TimeViolations ==
    [][(\A call \in pending : Resumes(call) =>
          /\ timeViolations' =
                IF call.timeTakenSeconds > PENALTY_START_SEC
                THEN timeViolations + 1 ELSE timeViolations
          /\ timeViolations' > MAX_VIOLATIONS_ALLOWED
                => status' = "TERMINATED" /\ terminationReason'.kind = "TIME"
          /\ timeViolations' <= MAX_VIOLATIONS_ALLOWED
                => /\ terminationReason'.kind = "TIME" => terminationReason' = terminationReason
                   /\ consecutiveWeakAnswers' < STRIKE_LIMIT => status' # "TERMINATED")]_vars

\* C12 witness: three late strong answers ended the session without a strike.
C12_Witness ==
    /\ Len(turns) = MAX_VIOLATIONS_ALLOWED + 1
    /\ \A i \in 1..Len(turns) :
          /\ turns[i].evaluation.timeTakenSeconds > PENALTY_START_SEC
          /\ FinalScoreOf(turns[i]) >= STRONG_SCORE
    /\ timeViolations = MAX_VIOLATIONS_ALLOWED + 1
    /\ consecutiveWeakAnswers = 0
    /\ status = "TERMINATED"
    /\ terminationReason.kind = "TIME"

\* C13 (as claimed): the turn that brings the turn count to MAX_QUESTIONS with neither
\* the strike limit nor the violation limit exceeded ends with status COMPLETED and a
\* null terminationReason, and COMPLETED is entered only by such a turn.
C13_CompletedAtQuestionLimit ==
    [][(/\ \A call \in pending : Resumes(call) =>
              /\ (/\ Len(turns') >= MAX_QUESTIONS
                  /\ consecutiveWeakAnswers' < STRIKE_LIMIT
                  /\ timeViolations' <= MAX_VIOLATIONS_ALLOWED)
                    => status' = "COMPLETED" /\ terminationReason' = NoReason
              /\ status' = "COMPLETED" => Len(turns') >= MAX_QUESTIONS
        /\ (status' = "COMPLETED" /\ status # "COMPLETED")
              => \E call \in pending : Resumes(call))]_vars

\* C14: whenever a difficulty ceiling is set, the current difficulty is at or below it.
C14_DifficultyWithinCeiling ==
    difficultyCeiling # NoCeiling
        => LevelIndex(currentDifficulty) <= LevelIndex(difficultyCeiling)

\* C14 witness: under a ceiling, three strong answers in a row left the difficulty at
\* the ceiling.
C14_Witness ==
    /\ difficultyCeiling = CAP_LEVEL
    /\ Len(turns) >= 3
    /\ \A i \in 1..Len(turns) : FinalScoreOf(turns[i]) >= STRONG_SCORE
    /\ turns[Len(turns)].difficultyBefore = CAP_LEVEL
    /\ currentDifficulty = CAP_LEVEL

\* C15: without a ceiling, nextDifficulty raises the difficulty by exactly one level,
\* saturating at Hard, for a score of at least 8.0, lowers it by exactly one level,
\* saturating at Easy, for a score of at most 4.5, and leaves it unchanged for a score
\* strictly between; it never moves the difficulty by more than one level.
C15_NextDifficultyAdaptation ==
    (kernel.fn = "nextDifficulty" /\ kernel.done /\ kernel.ceiling = NoCeiling) =>
        LET from == LevelIndex(kernel.current)
            to == LevelIndex(kernel.difficulty)
        IN  /\ kernel.score >= STRONG_SCORE => to = (IF from = 2 THEN 2 ELSE from + 1)
            /\ kernel.score <= WEAK_SCORE => to = (IF from = 0 THEN 0 ELSE from - 1)
            /\ (kernel.score > WEAK_SCORE /\ kernel.score < STRONG_SCORE) => to = from
            /\ to - from \in {-1, 0, 1}

\* C15 witness: a score of exactly 8.0 raised Medium to Hard with no ceiling set.
C15_Witness ==
    /\ kernel.fn = "nextDifficulty"
    /\ kernel.done
    /\ kernel.ceiling = NoCeiling
    /\ kernel.current = "Medium"
    /\ kernel.score = STRONG_SCORE
    /\ kernel.difficulty = "Hard"

\* C20: calculateTimeLogic gives no penalty and no violation up to 60 seconds; above,
\* it flags a violation and the penalty is 0.5 for each started step of 5 seconds of
\* overtime (65 gives 0.5, 66 gives 1.0); the penalty never decreases as the time grows.
C20_TimePenalty ==
    (kernel.fn = "calculateTimeLogic" /\ kernel.done) =>
        LET overtime == kernel.seconds - 60
            steps == CHOOSE n \in 0..kernel.seconds : n * 5 >= overtime /\ (n - 1) * 5 < overtime
        IN  /\ kernel.seconds <= 60 => (kernel.penalty = 0 /\ ~kernel.isViolation)
            /\ kernel.seconds > 60 => (kernel.penalty = steps * 50 /\ kernel.isViolation)
            /\ kernel.seconds = 65 => kernel.penalty = 50
            /\ kernel.seconds = 66 => kernel.penalty = 100
            /\ \A earlier \in 0..kernel.seconds :
                  calculateTimeLogic(earlier).penalty <= kernel.penalty

\* C20 witness: 66 seconds were penalised with 1.0 and flagged.
C20_Witness ==
    /\ kernel.fn = "calculateTimeLogic"
    /\ kernel.done
    /\ kernel.seconds = 66
    /\ kernel.penalty = 100
    /\ kernel.isViolation

\* the answer holds something other than white space
NonEmpty(answerText) == answerText.len > 0 /\ ~answerText.blank

\* all four criteria of the evaluation are `x`
AllCriteria(evaluation, x) ==
    /\ evaluation.accuracy = x
    /\ evaluation.depth = x
    /\ evaluation.clarity = x
    /\ evaluation.relevance = x

\* the criteria of the evaluation are ones evaluateAnswer resolved to
FromEvaluator(evaluation) ==
    \E r \in EvalResults :
        /\ evaluation.accuracy = r.accuracy
        /\ evaluation.depth = r.depth
        /\ evaluation.clarity = r.clarity
        /\ evaluation.relevance = r.relevance
        /\ evaluation.isFallback = r.isFallback

\* C16: an empty or white-space-only answer is recorded with a final score of 0,
\* whatever the time taken and the target skill, and evaluateAnswer is not called for
\* it: the call does not wait for an evaluation and records the criteria forced locally.
C16_EmptyAnswerScoresZero ==
    [][(\A call \in pending : (Resumes(call) /\ ~NonEmpty(call.answer)) =>
          LET evaluation == turns'[Len(turns')].evaluation
          IN  /\ evaluation.finalScore = 0
              /\ call.local
              /\ AllCriteria(evaluation, 0)
              /\ evaluation.isFallback
              /\ evaluationMode' = evaluationMode)]_vars

\* C16 witness: an empty answer to a question on a missing skill, given late, was
\* recorded with score 0.
C16_Witness ==
    /\ Len(turns) = 1
    /\ ~NonEmpty(turns[1].answer)
    /\ turns[1].evaluation.skillGapPenalty > 0
    /\ turns[1].evaluation.timePenalty > 0
    /\ turns[1].evaluation.finalScore = 0

C18_FastAnswerIsSpam ==
    [][(\A call \in pending :
          (Resumes(call) /\ NonEmpty(call.answer) /\ call.timeTakenSeconds * 1000 < 2000) =>
              /\ call.local
              /\ turns'[Len(turns')].evaluation.finalScore = 0)]_vars

\* C19: a freshly reset session initialized with the role and profile of an earlier one
\* and given the same target skills, answers, times and criteria, under other question
\* identifiers and whichever evaluator produced the criteria, goes through the same
\* scores and difficulties, keeps going where the earlier one did, and ends with the
\* same score history, difficulty sequence, counters and status.
C19_ReplayIsDeterministic ==
    (twin.phase = "second" /\ pending = {} /\ activeQuestion = NoQuestion) =>
        LET n == Len(turns)
        IN  /\ scoreHistory = SubSeq(twin.final.scoreHistory, 1, n)
            /\ SessionOutcome.difficulties = SubSeq(twin.final.difficulties, 1, n)
            /\ (n >= 1 /\ n < Len(twin.turns)) => status = "GENERATING"
            /\ n = Len(twin.turns) => SessionOutcome = twin.final

\* C19 witness: a session of three turns was replayed to its end under other question
\* identifiers.
C19_Witness ==
    /\ twin.phase = "second"
    /\ pending = {}
    /\ Len(turns) = 3
    /\ Len(twin.turns) = 3
    /\ \A i \in 1..3 : turns[i].question.id # twin.turns[i].question.id
    /\ SessionOutcome = twin.final
    /\ status = "TERMINATED"

\* the weighted sum of the criteria of an evaluation, in thousandths of a point
WeightedSum(evaluation) ==
    evaluation.accuracy * 40 + evaluation.depth * 30
        + evaluation.clarity * 15 + evaluation.relevance * 15

\* C21 (as claimed): the final score of every turn is max(0, base - timePenalty -
\* gapPenalty) with base the weighted sum 0.40*accuracy + 0.30*depth + 0.15*clarity +
\* 0.15*relevance itself.
C21_FinalScoreOfExactSum ==
    \A i \in 1..Len(turns) :
        LET evaluation == turns[i].evaluation
            net == WeightedSum(evaluation)
                       - 10 * evaluation.timePenalty - 10 * evaluation.skillGapPenalty
        IN  10 * evaluation.finalScore = (IF net > 0 THEN net ELSE 0)

\* C21 (amended): the final score of every turn is max(0, base - timePenalty -
\* gapPenalty) with base the weighted sum of the criteria rounded to two decimals; the
\* weights sum to 1.0 and criteria (10,10,10,10) give base 10.0; every entry of
\* scoreHistory is the final score of its turn and lies in [0,10].
C21_FinalScore ==
    /\ WEIGHT_ACCURACY + WEIGHT_DEPTH + WEIGHT_CLARITY + WEIGHT_RELEVANCE = 100
    /\ calculateScore(Criteria(100, 100, 100, 100)) = 1000
    /\ Len(scoreHistory) = Len(turns)
    /\ \A i \in 1..Len(turns) :
          LET evaluation == turns[i].evaluation
              net == evaluation.totalScore - evaluation.timePenalty
                         - evaluation.skillGapPenalty
          IN  /\ 10 * evaluation.totalScore - WeightedSum(evaluation) \in -5..5
              /\ evaluation.finalScore = (IF net > 0 THEN net ELSE 0)
              /\ scoreHistory[i] = evaluation.finalScore
              /\ scoreHistory[i] \in 0..1000

\* C21 witness: the penalties of a turn were larger than its base score, and the score
\* recorded is 0.
C21_Witness ==
    /\ Len(turns) = 1
    /\ turns[1].evaluation.totalScore > 0
    /\ turns[1].evaluation.totalScore
          < turns[1].evaluation.timePenalty + turns[1].evaluation.skillGapPenalty
    /\ scoreHistory = <<0>>

\* the two names are equal but for the case of their letters
SameIgnoringCase(a, b) == a.name = b.name /\ a.padded = b.padded

\* C22: the skill-gap penalty of a turn is PRIMARY_MISSING when the target skill of its
\* question equals, case-insensitively, the name of a PRIMARY gap, SECONDARY_MISSING
\* when it equals only the name of a SECONDARY gap, and 0 when it equals no gap's name;
\* every gap recorded is penalised when a question targets its skill as recorded.
C22_SkillGapPenalty ==
    [][(\A call \in pending : Resumes(call) =>
          LET target == call.question.targetSkill
              penalty == turns'[Len(turns')].evaluation.skillGapPenalty
              Matches(type) ==
                  \E i \in 1..Len(detectedSkillGaps) :
                      /\ detectedSkillGaps[i].type = type
                      /\ SameIgnoringCase(detectedSkillGaps[i].skill, target)
          IN  /\ Matches("PRIMARY") => penalty = 150
              /\ (~Matches("PRIMARY") /\ Matches("SECONDARY")) => penalty = 50
              /\ (~Matches("PRIMARY") /\ ~Matches("SECONDARY")) => penalty = 0
              /\ \A i \in 1..Len(detectedSkillGaps) :
                    checkSkillGap(detectedSkillGaps[i].skill, detectedSkillGaps).penalty > 0)]_vars

\* C22 witness: a question on "graphql" was penalised for the PRIMARY gap "GraphQL".
C22_Witness ==
    /\ Len(turns) = 1
    /\ turns[1].question.targetSkill = Skill("graphql", FALSE, FALSE)
    /\ \E i \in 1..Len(detectedSkillGaps) :
          detectedSkillGaps[i] = [skill |-> GraphQL, type |-> "PRIMARY"]
    /\ turns[1].evaluation.skillGapPenalty = PRIMARY_MISSING

\* C23: initializeSession sets the difficulty to Medium for a Senior role and to Easy for
\* every other complexity level, and ends with status IDLE and no active question.
C23_InitializeSessionEndsReady ==
    [][(\A jd \in Roles, resume \in Profiles : initializeSession(jd, resume) =>
          /\ currentDifficulty' = (IF jd.complexityLevel = "Senior" THEN "Medium" ELSE "Easy")
          /\ status' = "IDLE"
          /\ activeQuestion' = NoQuestion)]_vars

\* C24: on a session without a ceiling, initializeSession sets the ceiling to Medium
\* exactly when the role has primary skills and fewer than 60% of them are among the
\* candidate's skills, compared by trimmed lower-cased name; a role without primary
\* skills and a ratio of exactly 0.6 set no ceiling.
C24_CeilingBelowThreshold ==
    [][(\A jd \in Roles, resume \in Profiles :
          (difficultyCeiling = NoCeiling /\ initializeSession(jd, resume)) =>
              LET required == Len(jd.primarySkills)
                  matched ==
                      Cardinality({i \in 1..required :
                                      \E j \in 1..Len(resume) :
                                          resume[j].name = jd.primarySkills[i].name})
              IN  /\ (required > 0 /\ 10 * matched < 6 * required)
                         => difficultyCeiling' = "Medium"
                  /\ (required > 0 /\ 10 * matched >= 6 * required)
                         => difficultyCeiling' = NoCeiling
                  /\ required = 0 => difficultyCeiling' = NoCeiling)]_vars

\* C24 witness: three of five primary skills matched, one of them written " react ",
\* and no ceiling was set.
C24_Witness ==
    /\ scope = "gaps"
    /\ Len(detectedSkillGaps) = 2
    /\ \A i \in 1..Len(detectedSkillGaps) : detectedSkillGaps[i].type = "PRIMARY"
    /\ currentDifficulty = "Medium"
    /\ difficultyCeiling = NoCeiling
    /\ status = "IDLE"

\* the mode-switch warnings in the audit log
Warnings == SelectSeq(logs, IsWarning)

\* C25: an evaluation of evaluateAnswer that carries the fallback flag leaves the mode
\* FALLBACK_RULE_BASED; from then on only reset() takes the mode back to LLM, whatever
\* later evaluations carry; the audit log holds the mode-switch warning once while the
\* mode is FALLBACK_RULE_BASED and not at all while it is LLM.
C25_FallbackModeSticks ==
    [][(/\ \A call \in pending, r \in EvalResults :
              (submitAnswerResume(call, r) /\ ~call.local /\ r.isFallback)
                  => evaluationMode' = "FALLBACK_RULE_BASED"
        /\ (evaluationMode = "FALLBACK_RULE_BASED" /\ evaluationMode' # "FALLBACK_RULE_BASED")
              => reset
        /\ (TrackLogs \/ TrackWarnings) =>
              Len(Warnings') = (IF evaluationMode' = "FALLBACK_RULE_BASED" THEN 1 ELSE 0))]_vars

\* C25 witness: a fallback evaluation, one of the external service and another fallback
\* evaluation; the mode is FALLBACK_RULE_BASED and the log holds one warning.
C25_Witness ==
    /\ Len(turns) = 3
    /\ turns[1].evaluation.isFallback
    /\ ~turns[2].evaluation.isFallback
    /\ turns[3].evaluation.isFallback
    /\ evaluationMode = "FALLBACK_RULE_BASED"
    /\ Len(Warnings) = 1

\* C27: reset() can be called in every state, and the state it leaves is the initial
\* one: status IDLE, difficulty Easy, mode LLM, no active question, no turns and no
\* scores, both counters 0, no skill gaps, no ceiling, no termination reason, and the
\* audit log of a new engine.
C27_ResetRestoresInitialState ==
    /\ [](~SyncRunning => ENABLED reset)
    /\ [][(reset =>
            /\ status' = "IDLE"
            /\ currentDifficulty' = "Easy"
            /\ evaluationMode' = "LLM"
            /\ activeQuestion' = [id |-> 0, targetSkill |-> Skill("", FALSE, FALSE)]
            /\ turns' = <<>>
            /\ scoreHistory' = <<>>
            /\ consecutiveWeakAnswers' = 0
            /\ timeViolations' = 0
            /\ detectedSkillGaps' = <<>>
            /\ difficultyCeiling' = "null"
            /\ terminationReason' = [kind |-> "null", count |-> 0, limit |-> 0]
            /\ logs' = <<"SYSTEM Engine Online">>
            /\ delivered' = Snapshot("IDLE", NoQuestion))]_vars

\* C27 witness: reset() was called while an answer was being evaluated, and the session
\* is the initial one.
C27_Witness ==
    /\ lastCall = Call("reset", "ok")
    /\ pending # {}
    /\ status = "IDLE"
    /\ turns = <<>>
    /\ difficultyCeiling = NoCeiling

\* C30: the accuracy FallbackRegistry.evaluate returns is min(8.5, 4.0 + 2.0*keywordHits
\* + (1.0 if the answer has at least 50 characters)), and none of the four criteria it
\* returns is 10.
C30_FallbackHeuristic ==
    (kernel.fn = "evaluate" /\ kernel.done) =>
        LET sum == 40 + 20 * kernel.keywordHits + (IF kernel.length >= 50 THEN 10 ELSE 0)
        IN  /\ kernel.evaluation.accuracy = (IF sum < 85 THEN sum ELSE 85)
            /\ kernel.evaluation.accuracy # 100
            /\ kernel.evaluation.depth # 100
            /\ kernel.evaluation.clarity # 100
            /\ kernel.evaluation.relevance # 100

\* C30 witness: an answer of 50 characters with three keywords, whose sum 11.0 was
\* capped at 8.5.
C30_Witness ==
    /\ kernel.fn = "evaluate"
    /\ kernel.done
    /\ kernel.keywordHits = 3
    /\ kernel.length = 50
    /\ kernel.evaluation.accuracy = 85

\* C26: in a session driven by App and not abandoned by a Reset, with every call awaited
\* returning and the timer running, at most MAX_QUESTIONS turns are recorded, no error
\* is raised, and once the interview was begun the status COMPLETED or TERMINATED is
\* reached, whichever evaluations come from the fallback evaluator.
C26_SessionsFinish ==
    /\ [](app.resets = 0 => (Len(turns) <= 5 /\ ~app.error))
    /\ (app.resets = 0 /\ app.begun > 0) ~> (status \in Terminal \/ app.resets > 0)

\* C26 witness: a session of five turns, some of them evaluated by the fallback
\* evaluator, was completed without a Reset.
C26_Witness ==
    /\ scope = "app"
    /\ app.resets = 0
    /\ status = "COMPLETED"
    /\ Len(turns) = 5
    /\ \E i \in 1..Len(turns) : turns[i].evaluation.isFallback

\* C28: the fields of a state object a subscriber kept from a notification are as they
\* were when it was handed over.
C28_SnapshotImmutable == kept.held => kept.seen = kept.given

\* C29: a begin request made while the status is not IDLE changes neither the session
\* nor the calls awaited; without a Reset at most one begin request is accepted, and
\* each accepted one has its first question outstanding or presented, once.
C29_DuplicateBeginIgnored ==
    /\ [][((handleBeginSession /\ status # "IDLE") =>
             /\ UNCHANGED <<sessionVars, pending, delivered>>
             /\ app' = [app EXCEPT !.lastBegin = "ignored"])]_vars
    /\ [](/\ app.begun <= app.resets + 1
          /\ app.resets = 0 => (app.begun <= 1 /\ app.begins + app.started = app.begun))

\* C29 witness: a second begin request was ignored while the first question was
\* still being generated.
C29_Witness ==
    /\ status = "GENERATING"
    /\ app.begins = 1
    /\ app.lastBegin = "ignored"

\* C31: the fallback evaluator's scores reach both thresholds of the adaptation.  Its
\* score grows with the keywords found and with the length, so this is: the evaluation
\* of the answer with the most keywords and the greatest length has a score of at least
\* STRONG_SCORE and raises the difficulty, and the one of the short answer without
\* keywords has a score of at most WEAK_SCORE and lowers it (penalties only lower a
\* score).
C31_FallbackAdaptsBothWays ==
    (kernel.fn = "evaluate" /\ kernel.done) =>
        /\ (kernel.keywordHits = MaxKeywordHits /\ kernel.length = MaxAnswerLength) =>
              /\ calculateScore(kernel.evaluation) >= 800
              /\ nextDifficulty("Easy", calculateScore(kernel.evaluation), NoCeiling) = "Medium"
        /\ (kernel.keywordHits = 0 /\ kernel.length = 0) =>
              /\ calculateScore(kernel.evaluation) <= 450
              /\ nextDifficulty("Medium", calculateScore(kernel.evaluation), NoCeiling) = "Easy"

\* C38: a question taken from the fallback pool was not asked before, unless every
\* question of the pool was.
C38_FallbackAvoidsRepeats ==
    (kernel.fn = "generateQuestion" /\ kernel.done
        /\ kernel.previousQuestions # 1..POOL_SIZE)
        => kernel.picked \notin kernel.previousQuestions

\* C39: the audit log never holds more than 200 entries; an entry added to a log of
\* 200 puts the new entry first, keeps the 199 newest entries in their order behind it
\* and drops the oldest; an entry added to a shorter log drops nothing.
C39_LogCapped ==
    /\ [](Len(logs) <= 200)
    /\ [][(logs' # logs =>
             /\ Head(logs') = ToString(kernel'.written)
             /\ IF Len(logs) = 200
                THEN /\ Len(logs') = 200
                     /\ \A i \in 1..199 : logs'[i + 1] = logs[i]
                ELSE Tail(logs') = logs)]_vars

\* C39 witness: the log is full and its first entry, the constructor's, was dropped.
C39_Witness ==
    /\ scope = "log"
    /\ Len(logs) = 200
    /\ logs[200] = "1"
    /\ logs[1] = "200"

\* C32: in every state the active question is set exactly when the status is
\* INTERVIEWING.
C32_ActiveQuestionIffInterviewing ==
    (activeQuestion # NoQuestion) <=> (status = "INTERVIEWING")

\* C33: the score history is as long as the turn list, and its i-th entry is the final
\* score of the i-th turn.
C33_ScoreHistoryParallel ==
    /\ Len(turns) = Len(scoreHistory)
    /\ \A i \in 1..Len(turns) : scoreHistory[i] = turns[i].evaluation.finalScore

\* C33 witness: two turns with different final scores, first a strong then a weak one.
C33_Witness ==
    /\ Len(turns) = 2
    /\ scoreHistory[1] >= STRONG_SCORE
    /\ scoreHistory[2] <= WEAK_SCORE
    /\ status = "GENERATING"

\* C34: a step that is not reset() leaves the turn list as it is or, when it is the end
\* of an accepted submitAnswer, adds exactly one turn behind the turns recorded.
C34_TurnsAppendOnly ==
    [][((turns' # turns /\ ~reset) =>
          /\ \E call \in pending : Resumes(call)
          /\ Len(turns') = Len(turns) + 1
          /\ \A i \in 1..Len(turns) : turns'[i] = turns[i])]_vars

\* C34 witness: four turns were recorded one after the other.
C34_Witness ==
    /\ Len(turns) = 4
    /\ \A i \in 1..3 : turns[i].question.id # turns[i + 1].question.id
    /\ status = "GENERATING"

\* C35: a step that is not reset() never lowers timeViolations, and lowers
\* consecutiveWeakAnswers only as the end of a turn whose final score is above 4.5,
\* and then to 0.
C35_CountersMonotone ==
    [][(~reset =>
          /\ timeViolations' >= timeViolations
          /\ consecutiveWeakAnswers' < consecutiveWeakAnswers =>
                /\ \E call \in pending : Resumes(call)
                /\ Len(turns') = Len(turns) + 1
                /\ turns'[Len(turns')].evaluation.finalScore > 450
                /\ consecutiveWeakAnswers' = 0)]_vars

\* C35 witness: after two strikes and one time violation an answer above the weak
\* threshold set the strikes to 0 and left the violation counted.
C35_Witness ==
    /\ Len(turns) = 3
    /\ turns[1].evaluation.finalScore <= WEAK_SCORE
    /\ turns[2].evaluation.finalScore <= WEAK_SCORE
    /\ turns[3].evaluation.finalScore > WEAK_SCORE
    /\ consecutiveWeakAnswers = 0
    /\ timeViolations >= 1
    /\ turns[3].evaluation.timeTakenSeconds <= PENALTY_START_SEC

\* C36: a difficulty ceiling that is set stays as it is in every step but reset().
C36_CeilingKept ==
    [][((difficultyCeiling # NoCeiling /\ ~reset)
          => difficultyCeiling' = difficultyCeiling)]_vars

\* C36 witness: a session with a ceiling was initialized again with a profile without
\* skill gaps, and the ceiling is still set.
C36_Witness ==
    /\ difficultyCeiling = CAP_LEVEL
    /\ detectedSkillGaps = <<>>
    /\ status = "IDLE"

\* C37: when a session was reset by App and no request was made since, the completion
\* of a call that is still outstanding (an evaluation, the generation of a first or of
\* a next question) leaves the turns, the score history, both counters and the status
\* as the reset left them.
C37_ResetSessionUntouched ==
    [][((/\ app.resets > 0 /\ ~app.data /\ app.parses = 0
         /\ status = "IDLE" /\ turns = <<>>
         /\ (executeSubmissionResume \/ fetchNextQuestionResume \/ handleBeginSessionResume))
        => UNCHANGED <<turns, scoreHistory, consecutiveWeakAnswers, timeViolations,
                       status>>)]_vars

\* the submissions of the session that came from App's handlers
AppTurns == IF scope = "app" THEN 1..Len(turns) ELSE {}

====
